---- MODULE Spec2Model ----
(***************************************************************************)
(* Loyalty engine (commercetools connect "event" application).             *)
(*                                                                         *)
(* The model follows the event controller (post, handleOrderCreated,       *)
(* handleOrderCancelled) and the loyalty service (getConversionRates,      *)
(* currencyToPoints, getPointsFromPayments,                                *)
(* getPointRedemptionPointsToDeduct, getCurrentAvailablePoints).           *)
(* The commerce platform (orders, payments, cart discounts, custom         *)
(* objects, customers with optimistic versions) is the environment.        *)
(* Every await of a handler is one step, so that handlers of different     *)
(* deliveries interleave exactly where the code can be suspended.          *)
(***************************************************************************)
EXTENDS Integers, Sequences, FiniteSets, TLC

(* ------------------------------------------------------------------ *)
(* Bounds                                                              *)
(* ------------------------------------------------------------------ *)

\* Number of deliveries (calls of post) in one behaviour.
MaxTasks == 2

Tasks == 1..MaxTasks

\* Number of requests, in one behaviour, that the platform fails to serve
\* although what they ask for exists (outages, timeouts, 5xx answers).
MaxFaults == 1

(* ------------------------------------------------------------------ *)
(* Program constants                                                   *)
(* ------------------------------------------------------------------ *)

AVAILABLE_POINTS_KEY == "availablePoints"
CUSTOMER_LOYALTY_CUSTOM_TYPE == "additional-customer-info"
CANCELLED_STATE_KEY == "Cancelled"

\* An absent (undefined) string-valued property.
None == "none"

(* ------------------------------------------------------------------ *)
(* JavaScript values                                                   *)
(* ------------------------------------------------------------------ *)

\* A stored custom-field value.  Numbers are kept in halves so that a
\* fractional stored balance (x.5) can be represented: halves = 2 * value.
Absent == [kind |-> "absent", halves |-> 0]
Null == [kind |-> "null", halves |-> 0]
Text == [kind |-> "text", halves |-> 0]
Num(n) == [kind |-> "num", halves |-> 2 * n]
Half(h) == [kind |-> "num", halves |-> h]

\* A JavaScript number that is an integer or NaN.
NaN == [nan |-> TRUE, n |-> 0]
Int2Js(n) == [nan |-> FALSE, n |-> n]

Max(a, b) == IF a >= b THEN a ELSE b

\* String.prototype.toUpperCase on the currency codes of the model.
ToUpperCase(s) ==
  CASE s = "usd" -> "USD"
    [] s = "Usd" -> "USD"
    [] s = "eur" -> "EUR"
    [] OTHER -> s

(* ------------------------------------------------------------------ *)
(* The platform's data (read only for the engine)                      *)
(* ------------------------------------------------------------------ *)

Rate(c, cca, pa) == [currency |-> c, currencyCentAmount |-> cca, pointAmount |-> pa]

\* An element of the stored array: a well-shaped row; an object or a
\* primitive one of whose three fields has the wrong type (`rate` is what
\* the element would be used as); or null.
Row(r) == [shape |-> "row", rate |-> r]
WrongRow == [shape |-> "wrong", rate |-> Rate("USD", 100, 1)]
NullRow == [shape |-> "null", rate |-> Rate("USD", 100, 1)]

RECURSIVE RowsFrom(_, _)
RowsFrom(rates, i) ==
  IF i > Len(rates) THEN <<>> ELSE <<Row(rates[i])>> \o RowsFrom(rates, i + 1)

\* Values a custom object can hold under LOYALTY_CONTAINER.  "missing": the
\* object does not exist (the GET fails with 404); "notArray": its value is
\* not an array; "array": an array of elements.
ObjMissing == [kind |-> "missing", rows |-> <<>>]
ObjNotArray == [kind |-> "notArray", rows |-> <<>>]
ObjArray(rows) == [kind |-> "array", rows |-> rows]
ObjBadRow == ObjArray(<<WrongRow>>)
ObjNullRow == ObjArray(<<NullRow>>)
ObjRows(rates) == ObjArray(RowsFrom(rates, 1))

\* Conversion tables that stop the processing, and one that does not.
UnusableObjects ==
  { ObjMissing, ObjNotArray, ObjBadRow, ObjNullRow,
    ObjArray(<<Row(Rate("USD", 100, 1)), NullRow>>),
    ObjArray(<<WrongRow, NullRow>>),
    ObjRows(<<>>) }
ConversionTable == ObjRows(<<Rate("USD", 100, 1)>>)

\* What getRedemptionRates may find: the rows of the conversion table, or
\* rows of its own.
RedemptionObjects == { ConversionTable, ObjRows(<<Rate("USD", 50, 1)>>) }

Money(cent, cur) == [present |-> TRUE, isNumber |-> TRUE, centAmount |-> cent, currencyCode |-> cur]
NoMoney == [present |-> FALSE, isNumber |-> FALSE, centAmount |-> 0, currencyCode |-> None]

\* Payments by id: amountPlanned.
Payments ==
  [ p1 |-> Money(500, "USD"),
    p2 |-> Money(250, "usd"),
    p3 |-> Money(100, "USD") ]

\* Cart discounts by id: custom fields.
DiscountFields(a, b, c, d) ==
  [isPointRedemption |-> a, isPointRedemtion |-> b, referenceCart |-> c, referenceCartId |-> d]

CartDiscounts ==
  [ d1 |-> DiscountFields(FALSE, TRUE, "k2", None),
    d2 |-> DiscountFields(TRUE, FALSE, None, "k4"),
    d3 |-> DiscountFields(TRUE, FALSE, "k9", None) ]

Portion(typeId, id, amount) == [typeId |-> typeId, id |-> id, discountedAmount |-> amount]
Direct(id, type, money) == [id |-> id, type |-> type, money |-> money]

OrderIds == {"o1", "o2", "o3", "o4"}
Orders ==
  [ o1 |-> [ customerId |-> "c1", cartId |-> "k1",
             payments |-> <<"p1">>,
             includedDiscounts |-> << Portion("cart-discount", "d3", Money(300, "USD")) >>,
             directDiscounts |-> <<>> ],
    o2 |-> [ customerId |-> "c1", cartId |-> "k2",
             payments |-> <<"p2", "p2">>,
             includedDiscounts |-> << Portion("cart-discount", "d1", Money(700, "USD")) >>,
             directDiscounts |-> << Direct("d1", "absolute", Money(900, "USD")) >> ],
    o3 |-> [ customerId |-> None, cartId |-> "k3",
             payments |-> <<"p1">>,
             includedDiscounts |-> <<>>,
             directDiscounts |-> <<>> ],
    o4 |-> [ customerId |-> "c2", cartId |-> "k4",
             payments |-> <<"p3", "p1">>,
             includedDiscounts |-> <<>>,
             directDiscounts |-> << Direct("d2", "absolute", Money(200, "USD")),
                                    Direct("d2", "relative", NoMoney) >> ] ]

CustomerIds == {"c1", "c2"}

(* ------------------------------------------------------------------ *)
(* loyalty.service                                                     *)
(* ------------------------------------------------------------------ *)

\* rows.every(r => typeof r.currency === 'string' && ...) from element i on:
\* every stops with false at the first element of the wrong shape, and
\* reading a field of null throws a TypeError.
RECURSIVE Every(_, _)
Every(rows, i) ==
  IF i > Len(rows) THEN "true"
  ELSE IF rows[i].shape = "null" THEN "throws"
  ELSE IF rows[i].shape = "wrong" THEN "false"
  ELSE Every(rows, i + 1)

\* The stored elements as the rows the conversion reads.
RECURSIVE RatesOf(_, _)
RatesOf(rows, i) ==
  IF i > Len(rows) THEN <<>> ELSE <<rows[i].rate>> \o RatesOf(rows, i + 1)

\* getConversionRates throws: the GET of a missing object fails (404), and
\* the shape test throws on a null element.
ConversionRatesThrow(obj) ==
  \/ obj.kind = "missing"
  \/ obj.kind = "array" /\ Every(obj.rows, 1) = "throws"

\* getConversionRates, after the custom object was fetched: [] when the
\* value is not an array or an element has the wrong shape, else the rows.
ConversionRowsOf(obj) ==
  IF obj.kind = "array" /\ Every(obj.rows, 1) = "true"
  THEN RatesOf(obj.rows, 1)
  ELSE <<>>

\* getRedemptionRates is imported and called by the controller, but the
\* loyalty service of this source tree does not define it: which object it
\* reads is not known.  It is taken to load a table of rates the way
\* getConversionRates does, from the object `redemptionObj`, which may or
\* may not hold what the conversion rates object holds.
getRedemptionRates(obj) == ConversionRowsOf(obj)

\* conversionRates.find(r => r.currency.toUpperCase() === code.toUpperCase()):
\* the index of the first row of that currency, 0 when there is none.
RECURSIVE FindRate(_, _, _)
FindRate(rates, code, i) ==
  IF i > Len(rates) THEN 0
  ELSE IF ToUpperCase(rates[i].currency) = ToUpperCase(code) THEN i
  ELSE FindRate(rates, code, i + 1)

\* Variant of FloorPoints in exact arithmetic: the floor of the real number
\* centAmount * pointAmount / currencyCentAmount.
FloorPoints_Exact(centAmount, rate) ==
  (centAmount * rate.pointAmount) \div rate.currencyCentAmount

Abs(n) == IF n >= 0 THEN n ELSE 0 - n

\* The t with 2^t <= n / d < 2^(t+1), for n, d > 0: the exponent of the
\* double nearest to n / d.
RECURSIVE Log2Floor(_, _)
Log2Floor(n, d) ==
  IF n >= 2 * d THEN 1 + Log2Floor(n, 2 * d)
  ELSE IF n < d THEN Log2Floor(2 * n, d) - 1
  ELSE 0

\* k more binary digits of the quotient whose current remainder is r: the
\* last digit produced and the remainder after it.
RECURSIVE DivisionTail(_, _, _, _)
DivisionTail(r, d, bit, k) ==
  IF k = 0 THEN [bit |-> bit, rem |-> r]
  ELSE DivisionTail((2 * r) % d, d, (2 * r) \div d, k - 1)

\* The IEEE 754 double division c / a (c, a > 0) by its rounding error: the
\* quotient is rounded to 53 significant binary digits, to nearest and to
\* even on a tie; the double is below (down) or above the real quotient by
\* err / den units of 2^(exp - 52).
DoubleQuotient(c, a) ==
  LET t == Log2Floor(c, a)
      n == IF t >= 0 THEN c ELSE c * 2^(0 - t)
      d == IF t >= 0 THEN a * 2^t ELSE a
      tail == DivisionTail(n - d, d, 1, 52)
      down == 2 * tail.rem < d \/ (2 * tail.rem = d /\ tail.bit = 0)
  IN [exp |-> t, den |-> d, down |-> down,
      err |-> IF down THEN tail.rem ELSE d - tail.rem]

\* Math.floor((centAmount / rate.currencyCentAmount) * rate.pointAmount) on
\* doubles, for centAmount >= 0, currencyCentAmount > 0 and an integral
\* pointAmount.  The division and the multiplication each round to the
\* nearest double.  When the real product is not an integer, or the
\* quotient is one, the roundings stay within the integer interval of the
\* real product.  When the real product is an integer x and the quotient is
\* not, the rounded product falls on the other side of x as soon as the
\* error of the quotient, times pointAmount, exceeds half the distance from
\* x to the next double on that side.
FloorPoints(centAmount, rate) ==
  LET c == centAmount
      a == rate.currencyCentAmount
      pa == rate.pointAmount
      exact == (c * pa) \div a
  IN
  IF c = 0 \/ pa = 0 THEN 0
  ELSE IF (c * pa) % a # 0 \/ c % a = 0 THEN exact
  ELSE LET q == DoubleQuotient(c, a)
           x == Abs(exact)
           s == Log2Floor(x, 1)
           side == IF q.down /\ x = 2^s THEN s - 1 ELSE s
           k == side - q.exp - 1
           crosses == IF k >= 0 THEN q.err * Abs(pa) > q.den * 2^k
                      ELSE q.err * Abs(pa) * 2^(0 - k) > q.den
       IN
       IF q.err = 0 \/ ~crosses THEN exact
       ELSE IF q.down = (pa > 0) THEN exact - 1
       ELSE exact

currencyToPoints(centAmount, currencyCode, conversionRates) ==
  LET i == FindRate(conversionRates, currencyCode, 1) IN
  IF i = 0 THEN 0
  ELSE IF conversionRates[i].currencyCentAmount <= 0 THEN 0
  ELSE FloorPoints(centAmount, conversionRates[i])

\* Points of one money value: typeof centAmount === 'number' and a currency.
MoneyPoints(amount, conversionRates) ==
  IF amount.present /\ amount.isNumber /\ amount.currencyCode # None
  THEN currencyToPoints(amount.centAmount, amount.currencyCode, conversionRates)
  ELSE 0

\* Variant of PaymentsFrom in which a payment fetch that throws ends the loop.
RECURSIVE PaymentsFrom_Abort(_, _, _, _)
PaymentsFrom_Abort(refs, i, failing, conversionRates) ==
  IF i > Len(refs) \/ i \in failing THEN 0
  ELSE (IF refs[i] = None
        THEN 0
        ELSE MoneyPoints(Payments[refs[i]], conversionRates))
       + PaymentsFrom_Abort(refs, i + 1, failing, conversionRates)

\* getPointsFromPayments: the loop over order.paymentInfo.payments from
\* index i on; `failing` holds the positions whose payment fetch throws.
RECURSIVE PaymentsFrom(_, _, _, _)
PaymentsFrom(refs, i, failing, conversionRates) ==
  IF i > Len(refs) THEN 0
  ELSE (IF refs[i] = None \/ i \in failing
        THEN 0
        ELSE MoneyPoints(Payments[refs[i]], conversionRates))
       + PaymentsFrom(refs, i + 1, failing, conversionRates)

getPointsFromPayments(order, failing, conversionRates) ==
  PaymentsFrom(order.payments, 1, failing, conversionRates)

\* Variant of isPointRedemptionDiscount that does not compare the cart ids.
isPointRedemptionDiscount_AnyCart(fields, orderCartId) ==
  fields.isPointRedemption \/ fields.isPointRedemtion

isPointRedemptionDiscount(fields, orderCartId) ==
  IF orderCartId = None THEN FALSE
  ELSE IF ~(fields.isPointRedemption \/ fields.isPointRedemtion) THEN FALSE
  ELSE (IF fields.referenceCart # None THEN fields.referenceCart
        ELSE fields.referenceCartId) = orderCartId

getDiscountCentAmount(value) ==
  IF value.type = "absolute" /\ value.money.present
  THEN value.money.centAmount
  ELSE 0

\* One included portion: fetched and converted when its reference is a
\* cart-discount or a direct-discount and the discount qualifies; `fails`
\* tells that the fetch of the discount throws.
PortionPoints(portion, orderCartId, fails, conversionRates) ==
  IF portion.id = None THEN 0
  ELSE IF portion.typeId \notin {"cart-discount", "direct-discount"} THEN 0
  ELSE IF fails THEN 0
  ELSE IF isPointRedemptionDiscount(CartDiscounts[portion.id], orderCartId)
       THEN MoneyPoints(portion.discountedAmount, conversionRates)
       ELSE 0

RECURSIVE IncludedFrom(_, _, _, _, _)
IncludedFrom(portions, i, orderCartId, failing, conversionRates) ==
  IF i > Len(portions) THEN 0
  ELSE PortionPoints(portions[i], orderCartId, i \in failing, conversionRates)
       + IncludedFrom(portions, i + 1, orderCartId, failing, conversionRates)

\* One direct discount of the fallback path.
DirectPoints(dd, orderCartId, fails, conversionRates) ==
  LET centAmount == getDiscountCentAmount(dd) IN
  IF ~(centAmount > 0 /\ dd.id # None) THEN 0
  ELSE IF fails THEN 0
  ELSE IF isPointRedemptionDiscount(CartDiscounts[dd.id], orderCartId)
          /\ dd.money.currencyCode # None
       THEN currencyToPoints(centAmount, dd.money.currencyCode, conversionRates)
       ELSE 0

RECURSIVE DirectFrom(_, _, _, _, _)
DirectFrom(dds, i, orderCartId, failing, conversionRates) ==
  IF i > Len(dds) THEN 0
  ELSE DirectPoints(dds[i], orderCartId, i \in failing, conversionRates)
       + DirectFrom(dds, i + 1, orderCartId, failing, conversionRates)

\* Variant of getPointRedemptionPointsToDeduct in which the fallback over the
\* direct discounts also runs when the included discounts yield nothing.
getPointRedemptionPointsToDeduct_Substitute(order, failing, conversionRates) ==
  LET primary == IncludedFrom(order.includedDiscounts, 1, order.cartId, failing,
                              conversionRates)
  IN IF primary = 0
     THEN DirectFrom(order.directDiscounts, 1, order.cartId, failing, conversionRates)
     ELSE primary

\* `failing` holds the positions, in the list the call iterates, whose
\* discount fetch throws.
getPointRedemptionPointsToDeduct(order, failing, conversionRates) ==
  IncludedFrom(order.includedDiscounts, 1, order.cartId, failing, conversionRates)
  + (IF Len(order.includedDiscounts) = 0 /\ Len(order.directDiscounts) > 0
     THEN DirectFrom(order.directDiscounts, 1, order.cartId, failing, conversionRates)
     ELSE 0)

\* Number(value) followed by Number.isInteger(n) ? n : Math.floor(n).
getCurrentAvailablePoints(value) ==
  IF value.kind \in {"absent", "null"} THEN Int2Js(0)
  ELSE IF value.kind = "text" THEN NaN
  ELSE IF value.halves % 2 = 0 THEN Int2Js(value.halves \div 2)
  ELSE Int2Js(value.halves \div 2)

(* ------------------------------------------------------------------ *)
(* State                                                               *)
(* ------------------------------------------------------------------ *)

VARIABLES
  conversionObj,      \* custom object LOYALTY_CONTAINER / CONVERSION_RATES
  redemptionObj,      \* what getRedemptionRates reads
  customers,          \* platform: customer id -> version, custom type, field
  posted,             \* number of deliveries received so far
  msg,                \* per delivery: the decoded Pub/Sub message (jsonData)
  pc,                 \* per delivery: the await the handler is suspended at
  direction,          \* per delivery: branch taken by post
  order,              \* per delivery: id of the order fetched
  conversionRates,    \* per delivery: local of the handler
  redemptionRates,    \* per delivery: local of the handler
  pointsFromPayments, \* per delivery: local of the handler
  pointsToDeduct,     \* per delivery: local (pointsToAddBack in the reversal)
  customer,           \* per delivery: the customer as read (version, fields, type)
  currentPoints,      \* per delivery: local of the handler
  newPoints,          \* per delivery: local of the handler
  actions,            \* per delivery: update actions of the customer write
  reads,              \* per delivery: the awaits of the handler that have returned
  writeResult,        \* per delivery: result of the customer write
  outcome,            \* per delivery: how the handler ended
  response,           \* per delivery: what the caller of post observes
  failed,             \* per delivery: the fetches of the two loops that threw
  cursor,             \* per delivery: position, in the loop, of the pending fetch
  faults,             \* number of requests the platform has failed to serve
  call                \* a call of a service function: arguments and result

platform == <<conversionObj, redemptionObj>>
computed == <<pointsFromPayments, pointsToDeduct>>
reconciled == <<customer, currentPoints, newPoints, actions>>
vars == <<conversionObj, redemptionObj, customers, posted, msg, pc, direction, order,
          conversionRates, redemptionRates, pointsFromPayments, pointsToDeduct,
          customer, currentPoints, newPoints, actions, reads, writeResult, outcome,
          response, failed, cursor, faults, call>>

\* A request whose Pub/Sub data decodes to a JSON object (jsonData).
Message(type, orderId, orderState) ==
  [body |-> "json", notificationType |-> "Message", type |-> type,
   orderId |-> orderId, orderState |-> orderState]

\* A request that does not decode: without a body, without a message,
\* without data, with data that is not JSON, with data that is the JSON null.
Undecodable(body) ==
  [body |-> body, notificationType |-> None, type |-> None, orderId |-> None,
   orderState |-> None]

\* The deliveries of the model: creations and cancellations of every order,
\* state changes to another state and without a state, another message
\* type, a message without an order id, the subscription's own
\* ResourceCreated notification, and the requests that do not decode.
Messages ==
  { Message("OrderCreated", o, None) : o \in OrderIds }
  \cup { Message("OrderStateChanged", o, CANCELLED_STATE_KEY) : o \in OrderIds }
  \cup { Message("OrderStateChanged", "o1", "Open"),
         Message("OrderStateChanged", "o1", None),
         Message("PaymentCreated", "o1", None),
         Message("OrderCreated", None, None),
         [body |-> "json", notificationType |-> "ResourceCreated", type |-> None,
          orderId |-> None, orderState |-> None] }
  \cup { Undecodable(b) : b \in {"noBody", "noMessage", "noData", "notJson", "jsonNull"} }

NoMessage == Message(None, None, None)

CustomerState(version, typeKey, value) ==
  [version |-> version, typeKey |-> typeKey, availablePoints |-> value]

NoCustomer == CustomerState(0, None, Absent)

\* Customers as the platform may hold them before the first delivery: without
\* a custom type, with the loyalty type and an integral or fractional
\* balance, or with another custom type.
InitialCustomers ==
  { CustomerState(1, None, Absent),
    CustomerState(1, CUSTOMER_LOYALTY_CUSTOM_TYPE, Num(0)),
    CustomerState(1, CUSTOMER_LOYALTY_CUSTOM_TYPE, Num(10)),
    CustomerState(1, CUSTOMER_LOYALTY_CUSTOM_TYPE, Half(3)),
    CustomerState(1, "other-type", Num(4)) }

NoFailure == [payments |-> {}, discounts |-> {}]
NoCall == [fn |-> "none"]

\* No delivery has been received.
Idle ==
  /\ posted = 0
  /\ msg = [t \in Tasks |-> NoMessage]
  /\ pc = [t \in Tasks |-> "idle"]
  /\ direction = [t \in Tasks |-> "none"]
  /\ order = [t \in Tasks |-> None]
  /\ conversionRates = [t \in Tasks |-> <<>>]
  /\ redemptionRates = [t \in Tasks |-> <<>>]
  /\ pointsFromPayments = [t \in Tasks |-> 0]
  /\ pointsToDeduct = [t \in Tasks |-> 0]
  /\ customer = [t \in Tasks |-> NoCustomer]
  /\ currentPoints = [t \in Tasks |-> Int2Js(0)]
  /\ newPoints = [t \in Tasks |-> Int2Js(0)]
  /\ actions = [t \in Tasks |-> <<>>]
  /\ reads = [t \in Tasks |-> <<>>]
  /\ writeResult = [t \in Tasks |-> "none"]
  /\ outcome = [t \in Tasks |-> "none"]
  /\ response = [t \in Tasks |-> "none"]
  /\ failed = [t \in Tasks |-> NoFailure]
  /\ cursor = [t \in Tasks |-> 0]

\* With an unusable conversion table no handler loads the redemption rates
\* or reads a customer, so one value of each is enough there.
Init ==
  /\ \/ /\ conversionObj \in UnusableObjects
        /\ redemptionObj = ConversionTable
        /\ customers = [id \in CustomerIds |->
                          IF id = "c1"
                          THEN CustomerState(1, CUSTOMER_LOYALTY_CUSTOM_TYPE, Num(10))
                          ELSE CustomerState(1, None, Absent)]
     \/ /\ conversionObj = ConversionTable
        /\ redemptionObj \in RedemptionObjects
        /\ \E c \in InitialCustomers :
             customers = [id \in CustomerIds |->
                            IF id = "c1" THEN c ELSE CustomerState(1, None, Absent)]
  /\ Idle
  /\ faults = 0
  /\ call = NoCall

(* ------------------------------------------------------------------ *)
(* event.controller: balance arithmetic and update actions             *)
(* ------------------------------------------------------------------ *)

\* x + k and Math.max(0, x) on a number that may be NaN.
JsAdd(x, k) == IF x.nan THEN NaN ELSE Int2Js(x.n + k)
JsMax0(x) == IF x.nan THEN NaN ELSE Int2Js(Max(0, x.n))

\* Variants of ForwardNewPoints: without the floor at 0, and with the two
\* deltas applied the wrong way round.
ForwardNewPoints_NoFloor(current, earned, deducted) ==
  JsAdd(JsAdd(current, earned), 0 - deducted)
ForwardNewPoints_Swapped(current, earned, deducted) ==
  JsMax0(JsAdd(JsAdd(current, deducted), 0 - earned))

\* handleOrderCreated: Math.max(0, currentPoints + pointsFromPayments - pointsToDeduct).
ForwardNewPoints(current, earned, deducted) ==
  JsMax0(JsAdd(JsAdd(current, earned), 0 - deducted))

\* Variants of ReversalNewPoints: the forward formula, and one that does
\* not give the redemption points back.
ReversalNewPoints_AsForward(current, earned, addBack) ==
  JsMax0(JsAdd(JsAdd(current, earned), 0 - addBack))
ReversalNewPoints_NoAddBack(current, earned, addBack) ==
  JsMax0(JsAdd(current, 0 - earned))

\* handleOrderCancelled: Math.max(0, currentPoints - pointsFromPayments + pointsToAddBack).
ReversalNewPoints(current, earned, addBack) ==
  JsMax0(JsAdd(JsAdd(current, 0 - earned), addBack))

\* handleOrderCreated: setCustomType when the customer has no custom type
\* or one whose key is not the loyalty type, then setCustomField.
ForwardActions(cust) ==
  (IF cust.typeKey = None \/ cust.typeKey # CUSTOMER_LOYALTY_CUSTOM_TYPE
   THEN <<"setCustomType">> ELSE <<>>) \o <<"setCustomField">>

\* handleOrderCancelled: setCustomType only when the customer has no custom type.
ReversalActions(cust) ==
  (IF cust.typeKey = None THEN <<"setCustomType">> ELSE <<>>) \o <<"setCustomField">>

\* Variant of IsAnonymous without the customerId gate.
IsAnonymous_Never(o) == FALSE

\* Both handlers: if (!order.customerId) return.
IsAnonymous(o) == o.customerId = None

\* Variant of Dispatch that takes every state change with a state for a
\* cancellation.
Dispatch_AnyState(m) ==
  IF m.type = "OrderCreated" THEN "forward"
  ELSE IF m.type = "OrderStateChanged"
       THEN (IF m.orderState # None THEN "reversal" ELSE "skipped")
  ELSE "skipped"

\* post: the branch taken for a message that carries an order id.
Dispatch(m) ==
  IF m.type = "OrderCreated" THEN "forward"
  ELSE IF m.type = "OrderStateChanged"
       THEN (IF m.orderState # None /\ m.orderState = CANCELLED_STATE_KEY
             THEN "reversal" ELSE "skipped")
  ELSE "skipped"

(* ------------------------------------------------------------------ *)
(* The platform's customer update                                     *)
(* ------------------------------------------------------------------ *)

\* The value of setCustomField as it is serialised: NaN becomes null, and a
\* null value removes the field.
FieldValueOf(js) == IF js.nan THEN Absent ELSE Num(js.n)

HasAction(acts, a) == \E i \in 1..Len(acts) : acts[i] = a

\* The update actions applied in order: setCustomType replaces the custom
\* type (and drops its fields), setCustomField sets availablePoints.
ApplyUpdate(cust, acts, value) ==
  CustomerState(cust.version + 1,
                IF HasAction(acts, "setCustomType")
                THEN CUSTOMER_LOYALTY_CUSTOM_TYPE ELSE cust.typeKey,
                FieldValueOf(value))

(* ------------------------------------------------------------------ *)
(* Steps                                                               *)
(* ------------------------------------------------------------------ *)

\* The handler returns or throws into post's catch; post then sends 204.
Finish(t, how) ==
  /\ pc' = [pc EXCEPT ![t] = "done"]
  /\ outcome' = [outcome EXCEPT ![t] = how]
  /\ response' = [response EXCEPT ![t] = "204"]

\* post leaves with an error before its try block: a CustomError, or the
\* error thrown by JSON.parse or by reading a property of null.
Reject(t, error) ==
  /\ direction' = [direction EXCEPT ![t] = "rejected"]
  /\ pc' = [pc EXCEPT ![t] = "done"]
  /\ outcome' = [outcome EXCEPT ![t] = "rejected"]
  /\ response' = [response EXCEPT ![t] = error]

\* post up to the first await: validation of the request and dispatch.
Post(m) ==
  /\ posted < MaxTasks
  /\ LET t == posted + 1 IN
     /\ posted' = t
     /\ msg' = [msg EXCEPT ![t] = m]
     /\ IF m.body \in {"noBody", "noMessage", "noData"}
        THEN Reject(t, "CustomError400")
        ELSE IF m.body = "notJson"
        THEN Reject(t, "SyntaxError")
        ELSE IF m.body = "jsonNull"
        THEN Reject(t, "TypeError")
        ELSE IF m.notificationType = "ResourceCreated"
        THEN Reject(t, "CustomError202")
        ELSE IF m.orderId = None
        THEN Reject(t, "CustomError400")
        ELSE /\ direction' = [direction EXCEPT ![t] = Dispatch(m)]
             /\ IF Dispatch(m) = "skipped"
                THEN Finish(t, "skipped")
                ELSE /\ pc' = [pc EXCEPT ![t] = "order"]
                     /\ UNCHANGED <<outcome, response>>
  /\ UNCHANGED <<platform, call, failed, cursor, faults, customers, order, conversionRates,
                 redemptionRates, computed, reconciled, reads, writeResult>>

\* Variant of Throw in which the exception passes through post to the caller.
Throw_Escapes(t, what) ==
  /\ reads' = [reads EXCEPT ![t] = Append(@, what)]
  /\ pc' = [pc EXCEPT ![t] = "done"]
  /\ outcome' = [outcome EXCEPT ![t] = "failed"]
  /\ response' = [response EXCEPT ![t] = "Error500"]

\* An awaited request of the handler throws (the platform answers with an
\* error or is unreachable): the exception reaches the catch of post.
Throw(t, what) ==
  /\ reads' = [reads EXCEPT ![t] = Append(@, what)]
  /\ Finish(t, "failed")

\* The platform fails to serve a request of the handler.
Fault(t, what) ==
  /\ faults < MaxFaults
  /\ faults' = faults + 1
  /\ Throw(t, what)

\* await apiRoot.orders().withId(orderId).get(), then the customerId gate.
ReadOrder(t) ==
  /\ pc[t] = "order"
  /\ \/ /\ Fault(t, "order")
        /\ UNCHANGED order
     \/ /\ order' = [order EXCEPT ![t] = msg[t].orderId]
        /\ UNCHANGED faults
        /\ reads' = [reads EXCEPT ![t] = Append(@, "order")]
        /\ IF IsAnonymous(Orders[msg[t].orderId])
           THEN Finish(t, "skipped")
           ELSE /\ pc' = [pc EXCEPT ![t] = "rates"]
                /\ UNCHANGED <<outcome, response>>
  /\ UNCHANGED <<platform, call, failed, cursor, customers, posted, msg, direction,
                 conversionRates, redemptionRates, computed, reconciled, writeResult>>

\* await getConversionRates(apiRoot), then the empty-table gate.
ReadConversionRates(t) ==
  /\ pc[t] = "rates"
  /\ \/ /\ conversionObj.kind # "missing"
        /\ Fault(t, "conversionRates")
        /\ UNCHANGED conversionRates
     \/ /\ ConversionRatesThrow(conversionObj)
        /\ Throw(t, "conversionRates")
        /\ UNCHANGED <<conversionRates, faults>>
     \/ /\ ~ConversionRatesThrow(conversionObj)
        /\ UNCHANGED faults
        /\ conversionRates' = [conversionRates EXCEPT ![t] = ConversionRowsOf(conversionObj)]
        /\ reads' = [reads EXCEPT ![t] = Append(@, "conversionRates")]
        /\ IF Len(ConversionRowsOf(conversionObj)) = 0
           THEN Finish(t, "skipped")
           ELSE /\ pc' = [pc EXCEPT ![t] = "redemptionRates"]
                /\ UNCHANGED <<outcome, response>>
  /\ UNCHANGED <<platform, call, failed, cursor, customers, posted, msg, direction, order,
                 redemptionRates, computed, reconciled, writeResult>>

\* The positions of order.paymentInfo.payments whose payment is requested:
\* those of the references with an id.
PaymentPositions(o) ==
  { i \in 1..Len(o.payments) : o.payments[i] # None }

\* The positions, in the list getPointRedemptionPointsToDeduct iterates,
\* whose cart discount is requested: an included discount with an id and
\* typeId cart-discount or direct-discount; without included discounts, a
\* direct discount with an id and an absolute amount > 0.
DiscountPositions(o) ==
  IF Len(o.includedDiscounts) > 0
  THEN { i \in 1..Len(o.includedDiscounts) :
           /\ o.includedDiscounts[i].id # None
           /\ o.includedDiscounts[i].typeId \in {"cart-discount", "direct-discount"} }
  ELSE { i \in 1..Len(o.directDiscounts) :
           /\ getDiscountCentAmount(o.directDiscounts[i]) > 0
           /\ o.directDiscounts[i].id # None }

\* The first position of S after i, 0 when there is none.
NextPosition(S, i) ==
  IF \E j \in S : j > i
  THEN CHOOSE j \in S : j > i /\ \A k \in S : k > i => j <= k
  ELSE 0

\* The handler calls getPointRedemptionPointsToDeduct, or goes on in its
\* loop after position i: up to the next request of a cart discount, or,
\* when there is none, through the return of the function up to the request
\* of the customer.  `lost` holds the positions whose fetch threw, `log`
\* the awaits of the handler that have returned.
ToNextDiscount(t, i, lost, log) ==
  LET o == Orders[order[t]]
      d == NextPosition(DiscountPositions(o), i)
  IN
  IF d # 0
  THEN /\ pc' = [pc EXCEPT ![t] = "discounts"]
       /\ cursor' = [cursor EXCEPT ![t] = d]
       /\ reads' = [reads EXCEPT ![t] = log]
       /\ UNCHANGED pointsToDeduct
  ELSE /\ pc' = [pc EXCEPT ![t] = "customer"]
       /\ cursor' = [cursor EXCEPT ![t] = 0]
       /\ reads' = [reads EXCEPT ![t] = Append(log, "discounts")]
       /\ pointsToDeduct' = [pointsToDeduct EXCEPT ![t] =
            getPointRedemptionPointsToDeduct(o, lost, redemptionRates'[t])]

\* The handler calls getPointsFromPayments, or goes on in its loop after
\* position i: up to the next request of a payment, or, when there is none,
\* through the return of the function into getPointRedemptionPointsToDeduct.
ToNextPayment(t, i, lost, log) ==
  LET o == Orders[order[t]]
      p == NextPosition(PaymentPositions(o), i)
  IN
  IF p # 0
  THEN /\ pc' = [pc EXCEPT ![t] = "payments"]
       /\ cursor' = [cursor EXCEPT ![t] = p]
       /\ reads' = [reads EXCEPT ![t] = log]
       /\ UNCHANGED computed
  ELSE /\ pointsFromPayments' = [pointsFromPayments EXCEPT ![t] =
            getPointsFromPayments(o, lost, conversionRates[t])]
       /\ ToNextDiscount(t, 0, {}, Append(log, "payments"))

\* await getRedemptionRates(apiRoot): the request fails, or the handler
\* gets the rows of redemptionObj and calls getPointsFromPayments.
ReadRedemptionRates(t) ==
  /\ pc[t] = "redemptionRates"
  /\ \/ /\ Fault(t, "redemptionRates")
        /\ UNCHANGED <<redemptionRates, computed, cursor>>
     \/ /\ UNCHANGED faults
        /\ redemptionRates' = [redemptionRates EXCEPT ![t] = getRedemptionRates(redemptionObj)]
        /\ ToNextPayment(t, 0, {}, Append(reads[t], "redemptionRates"))
        /\ UNCHANGED <<outcome, response>>
  /\ UNCHANGED <<platform, call, failed, customers, posted, msg, direction, order,
                 conversionRates, reconciled, writeResult>>

\* getPointsFromPayments: the platform answers the request of the payment at
\* cursor, or fails to, which the loop catches; the handler goes on.
FetchPayment(t) ==
  /\ pc[t] = "payments"
  /\ \/ /\ faults < MaxFaults
        /\ faults' = faults + 1
        /\ failed' = [failed EXCEPT ![t].payments = @ \cup {cursor[t]}]
     \/ UNCHANGED <<faults, failed>>
  /\ UNCHANGED redemptionRates
  /\ ToNextPayment(t, cursor[t], failed'[t].payments, reads[t])
  /\ UNCHANGED <<platform, call, customers, posted, msg, direction, order, conversionRates,
                 reconciled, writeResult, outcome, response>>

\* getPointRedemptionPointsToDeduct: the platform answers the request of the
\* cart discount at cursor, or fails to, which the loops catch.
FetchDiscount(t) ==
  /\ pc[t] = "discounts"
  /\ \/ /\ faults < MaxFaults
        /\ faults' = faults + 1
        /\ failed' = [failed EXCEPT ![t].discounts = @ \cup {cursor[t]}]
     \/ UNCHANGED <<faults, failed>>
  /\ UNCHANGED <<redemptionRates, pointsFromPayments>>
  /\ ToNextDiscount(t, cursor[t], failed'[t].discounts, reads[t])
  /\ UNCHANGED <<platform, call, customers, posted, msg, direction, order, conversionRates,
                 reconciled, writeResult, outcome, response>>

\* await apiRoot.customers().withId(order.customerId).get(), then the
\* synchronous code up to the customer update request.
ReadCustomer(t) ==
  /\ pc[t] = "customer"
  /\ \/ /\ Fault(t, "customer")
        /\ UNCHANGED reconciled
     \/ LET cust == customers[Orders[order[t]].customerId]
            current == getCurrentAvailablePoints(cust.availablePoints)
        IN
        /\ customer' = [customer EXCEPT ![t] = cust]
        /\ currentPoints' = [currentPoints EXCEPT ![t] = current]
        /\ newPoints' = [newPoints EXCEPT ![t] =
             IF direction[t] = "forward"
             THEN ForwardNewPoints(current, pointsFromPayments[t], pointsToDeduct[t])
             ELSE ReversalNewPoints(current, pointsFromPayments[t], pointsToDeduct[t])]
        /\ actions' = [actions EXCEPT ![t] =
             IF direction[t] = "forward" THEN ForwardActions(cust)
             ELSE ReversalActions(cust)]
        /\ reads' = [reads EXCEPT ![t] = Append(@, "customer")]
        /\ pc' = [pc EXCEPT ![t] = "write"]
        /\ UNCHANGED <<outcome, response, faults>>
  /\ UNCHANGED <<platform, call, failed, cursor, customers, posted, msg, direction, order,
                 conversionRates, redemptionRates, computed, writeResult>>

\* Variant of VersionSent that sends the version the customer is to have
\* after the update instead of the one that was read.
VersionSent_Next(cust) == cust.version + 1

\* The version of the update request: version: customer.version, of the
\* customer whose balance the new balance was computed from.
VersionSent(cust) == cust.version

\* Variant of UpdateTarget that addresses the update to a fixed customer.
UpdateTarget_Fixed(o) == "c1"

\* The customer the update request is addressed to: withId({ ID: order.customerId }).
UpdateTarget(o) == o.customerId

\* await apiRoot.customers().withId(order.customerId).post({version, actions}):
\* the platform applies the update when the version is current, and answers
\* ConcurrentModification (409) otherwise, which leaves the customer as it
\* is; or it fails to serve the request.  The handler has no retry: either
\* failure reaches the catch of post.
WriteCustomer(t) ==
  /\ pc[t] = "write"
  /\ LET id == UpdateTarget(Orders[order[t]]) IN
     \/ /\ customers[id].version = VersionSent(customer[t])
        /\ customers' = [customers EXCEPT ![id] = ApplyUpdate(@, actions[t], newPoints[t])]
        /\ writeResult' = [writeResult EXCEPT ![t] = "ok"]
        /\ Finish(t, "applied")
        /\ UNCHANGED faults
     \/ /\ customers[id].version # VersionSent(customer[t])
        /\ writeResult' = [writeResult EXCEPT ![t] = "conflict"]
        /\ Finish(t, "failed")
        /\ UNCHANGED <<customers, faults>>
     \/ /\ faults < MaxFaults
        /\ faults' = faults + 1
        /\ writeResult' = [writeResult EXCEPT ![t] = "error"]
        /\ Finish(t, "failed")
        /\ UNCHANGED customers
  /\ UNCHANGED <<platform, call, failed, cursor, posted, msg, direction, order,
                 conversionRates, redemptionRates, computed, reconciled, reads>>

Next ==
  \/ \E m \in Messages : Post(m)
  \/ \E t \in Tasks : ReadOrder(t)
  \/ \E t \in Tasks : ReadConversionRates(t)
  \/ \E t \in Tasks : ReadRedemptionRates(t)
  \/ \E t \in Tasks : FetchPayment(t)
  \/ \E t \in Tasks : FetchDiscount(t)
  \/ \E t \in Tasks : ReadCustomer(t)
  \/ \E t \in Tasks : WriteCustomer(t)

Spec == Init /\ [][Next]_vars

(* ------------------------------------------------------------------ *)
(* The service functions called on their own                          *)
(* ------------------------------------------------------------------ *)

engine == <<conversionObj, redemptionObj, customers, posted, msg, pc, direction, order,
            conversionRates, redemptionRates, pointsFromPayments, pointsToDeduct,
            customer, currentPoints, newPoints, actions, reads, writeResult, outcome,
            response, failed, cursor, faults>>

\* Arguments of currencyToPoints: amounts in cents, currency codes in the
\* cases the platform and the table may spell them, and tables that
\* getConversionRates accepts (rows with a string and two numbers).
CentAmounts == {0, 29, 99, 100, 250, 500}
CurrencyCodes == {"USD", "usd", "Usd", "EUR", "GBP"}
RateTables ==
  { <<Rate("USD", 100, 1)>>,
    <<Rate("usd", 100, 1)>>,
    <<Rate("USD", 0, 1), Rate("USD", 100, 1)>>,
    <<Rate("EUR", 100, 1), Rate("USD", 50, 2)>>,
    <<Rate("USD", 100, 100)>>,
    <<Rate("USD", 100, 0 - 1)>>,
    <<Rate("USD", 0 - 100, 1)>>,
    <<>> }

\* An order by the fields the service functions read.
OrderWith(cartId, payments, included, direct) ==
  [customerId |-> "c1", cartId |-> cartId, payments |-> payments,
   includedDiscounts |-> included, directDiscounts |-> direct]

\* order.paymentInfo.payments: none, one, the same payment twice, several,
\* and a reference without an id.
PaymentLists ==
  { <<>>, <<"p1">>, <<"p2", "p2">>, <<"p3", "p1">>, <<"p1", "p2", "p3">>,
    <<"p1", None, "p1">> }

\* order.discountOnTotalPrice.includedDiscounts and order.directDiscounts.
IncludedLists ==
  { <<>>,
    << Portion("cart-discount", "d1", Money(700, "USD")) >>,
    << Portion("cart-discount", "d3", Money(300, "USD")) >>,
    << Portion("cart-discount", "d1", Money(700, "USD")),
       Portion("direct-discount", "d2", Money(200, "USD")) >>,
    << Portion("discount-code", "d1", Money(700, "USD")) >> }
DirectLists ==
  { <<>>,
    << Direct("d1", "absolute", Money(900, "USD")) >>,
    << Direct("d2", "absolute", Money(200, "USD")),
       Direct("d2", "relative", NoMoney) >> }
CartIds == {None, "k2", "k4"}

\* Custom fields of a cart discount and values of the customer's field.
FieldSets ==
  { DiscountFields(a, b, c, d) :
      a \in BOOLEAN, b \in BOOLEAN, c \in {None, "k2", "k9"}, d \in {None, "k2", "k9"} }
FieldValues == { Absent, Null, Text, Num(0), Num(10), Half(1), Half(3), Half(0 - 3) }

CalcInit ==
  /\ conversionObj = ConversionTable
  /\ redemptionObj = ConversionTable
  /\ customers = [id \in CustomerIds |-> CustomerState(1, None, Absent)]
  /\ Idle
  /\ faults = 0
  /\ call = NoCall

CallCurrencyToPoints ==
  /\ call.fn = "none"
  /\ \E centAmount \in CentAmounts, currencyCode \in CurrencyCodes, rates \in RateTables :
       call' = [fn |-> "currencyToPoints", centAmount |-> centAmount,
                currencyCode |-> currencyCode, rates |-> rates,
                result |-> currencyToPoints(centAmount, currencyCode, rates)]
  /\ UNCHANGED engine

CallGetPointsFromPayments ==
  /\ call.fn = "none"
  /\ \E refs \in PaymentLists, rates \in RateTables :
       LET o == OrderWith("k2", refs, <<>>, <<>>) IN
       \E failing \in SUBSET PaymentPositions(o) :
         call' = [fn |-> "getPointsFromPayments", order |-> o, failing |-> failing,
                  rates |-> rates,
                  result |-> getPointsFromPayments(o, failing, rates)]
  /\ UNCHANGED engine

CallGetPointRedemptionPointsToDeduct ==
  /\ call.fn = "none"
  /\ \E cartId \in CartIds, included \in IncludedLists, direct \in DirectLists,
        rates \in {<<Rate("USD", 100, 1)>>, <<Rate("USD", 50, 1)>>,
                  <<Rate("USD", 100, 0 - 1)>>} :
       LET o == OrderWith(cartId, <<>>, included, direct) IN
       \E failing \in SUBSET DiscountPositions(o) :
         call' = [fn |-> "getPointRedemptionPointsToDeduct", order |-> o,
                  failing |-> failing, rates |-> rates,
                  result |-> getPointRedemptionPointsToDeduct(o, failing, rates)]
  /\ UNCHANGED engine

CallIsPointRedemptionDiscount ==
  /\ call.fn = "none"
  /\ \E fields \in FieldSets, orderCartId \in {None, "k2"} :
       call' = [fn |-> "isPointRedemptionDiscount", fields |-> fields,
                orderCartId |-> orderCartId,
                result |-> isPointRedemptionDiscount(fields, orderCartId)]
  /\ UNCHANGED engine

CallGetCurrentAvailablePoints ==
  /\ call.fn = "none"
  /\ \E value \in FieldValues :
       call' = [fn |-> "getCurrentAvailablePoints", value |-> value,
                result |-> getCurrentAvailablePoints(value)]
  /\ UNCHANGED engine

CalcNext ==
  \/ CallCurrencyToPoints
  \/ CallGetPointsFromPayments
  \/ CallGetPointRedemptionPointsToDeduct
  \/ CallIsPointRedemptionDiscount
  \/ CallGetCurrentAvailablePoints

CalcSpec == CalcInit /\ [][CalcNext]_vars

(* ------------------------------------------------------------------ *)
(* Properties                                                          *)
(* ------------------------------------------------------------------ *)

Delivered == 1..posted
CustomerOf(t) == Orders[order[t]].customerId
Wrote(t) == writeResult[t] = "ok"
Forward(t) == direction[t] = "forward"
Reversal(t) == direction[t] = "reversal"

\* C1: every balance a handler sends in a customer update, and every balance
\* the platform stores, is a number >= 0.
C1_BalanceNeverNegative ==
  /\ \A t \in Tasks :
       (pc[t] = "write" \/ writeResult[t] # "none")
         => ~newPoints[t].nan /\ newPoints[t].n >= 0
  /\ \A c \in CustomerIds :
       customers[c].availablePoints.kind = "num"
         => customers[c].availablePoints.halves >= 0

\* The floor acted: a forward update was applied whose algebraic result was
\* negative, and the stored balance is 0.
C1_Witness ==
  \E t \in Tasks :
    /\ Forward(t) /\ Wrote(t)
    /\ currentPoints[t].n + pointsFromPayments[t] - pointsToDeduct[t] < 0
    /\ customers[CustomerOf(t)].availablePoints = Num(0)

\* C2: a handler whose customer update lost a version race has, once it has
\* ended, applied its delta (after a fresh read and a retry).
C2_RaceLoserIsApplied ==
  \A t \in Tasks :
    (pc[t] = "done" /\ writeResult[t] = "conflict") => outcome[t] = "applied"

\* C3: a second processing of the same event, computed from the balance the
\* first processing stored, leaves that balance as it is.
C3_RedeliveryKeepsBalance ==
  \A t, u \in Tasks :
    ( /\ t # u /\ msg[t] = msg[u]
      /\ Wrote(t) /\ Wrote(u)
      /\ customer[u].version = customer[t].version + 1 )
    => newPoints[u] = newPoints[t]

\* C4: a delivery whose customer update failed with a version conflict is
\* not answered with the acknowledging 204.
C4_FailedWriteIsReported ==
  \A t \in Tasks :
    (pc[t] = "done" /\ writeResult[t] = "conflict") => response[t] # "204"

\* C5: the update of an OrderCreated delivery carries
\* max(0, current + earned - deducted), and that is what the platform stores.
C5_ForwardBalance ==
  \A t \in Tasks :
    LET expected == Max(0, currentPoints[t].n + pointsFromPayments[t] - pointsToDeduct[t])
    IN
    /\ (Forward(t) /\ (pc[t] = "write" \/ writeResult[t] # "none"))
         => newPoints[t] = Int2Js(expected)
    /\ (Forward(t) /\ Wrote(t)
        /\ customers[CustomerOf(t)].version = customer[t].version + 1)
         => customers[CustomerOf(t)].availablePoints = Num(expected)

\* Scenario A: balance 10, 5 points earned, nothing deducted, 15 stored.
C5_Witness ==
  \E t \in Tasks :
    /\ Forward(t) /\ Wrote(t)
    /\ currentPoints[t] = Int2Js(10)
    /\ pointsFromPayments[t] = 5 /\ pointsToDeduct[t] = 0
    /\ customers[CustomerOf(t)].availablePoints = Num(15)

\* C6: the update of a cancellation delivery carries
\* max(0, current - earned + deducted), and that is what the platform stores.
C6_ReversalBalance ==
  \A t \in Tasks :
    LET expected == Max(0, currentPoints[t].n - pointsFromPayments[t] + pointsToDeduct[t])
    IN
    /\ (Reversal(t) /\ (pc[t] = "write" \/ writeResult[t] # "none"))
         => newPoints[t] = Int2Js(expected)
    /\ (Reversal(t) /\ Wrote(t)
        /\ customers[CustomerOf(t)].version = customer[t].version + 1)
         => customers[CustomerOf(t)].availablePoints = Num(expected)

\* A cancellation was applied that took payment points away and gave
\* redemption points back.
C6_Witness ==
  \E t \in Tasks :
    /\ Reversal(t) /\ Wrote(t)
    /\ currentPoints[t] = Int2Js(10)
    /\ pointsFromPayments[t] = 4 /\ pointsToDeduct[t] = 7
    /\ customers[CustomerOf(t)].availablePoints = Num(13)

\* C7: a creation f and the cancellation r of the same order, with the same
\* earned and deducted points, r computed from the balance f stored, and
\* neither result clipped at 0: r writes the balance f had read.
C7_ReversalCancelsForward ==
  \A f, r \in Tasks :
    ( /\ Forward(f) /\ Reversal(r)
      /\ Wrote(f) /\ (pc[r] = "write" \/ writeResult[r] # "none")
      /\ order[f] = order[r]
      /\ customer[r].version = customer[f].version + 1
      /\ pointsFromPayments[f] = pointsFromPayments[r]
      /\ pointsToDeduct[f] = pointsToDeduct[r]
      /\ currentPoints[f].n + pointsFromPayments[f] - pointsToDeduct[f] >= 0
      /\ currentPoints[r].n - pointsFromPayments[r] + pointsToDeduct[r] >= 0 )
    => newPoints[r] = currentPoints[f]

\* Creation then cancellation of an order with payments and a redemption:
\* 10, then 7, then 10 again.
C7_Witness ==
  \E f, r \in Tasks :
    /\ Forward(f) /\ Reversal(r) /\ Wrote(f) /\ Wrote(r)
    /\ order[f] = order[r]
    /\ customer[r].version = customer[f].version + 1
    /\ pointsFromPayments[f] = 4 /\ pointsFromPayments[r] = 4
    /\ pointsToDeduct[f] = 7 /\ pointsToDeduct[r] = 7
    /\ currentPoints[f] = Int2Js(10) /\ newPoints[f] = Int2Js(7)
    /\ customers[CustomerOf(r)].availablePoints = Num(10)

\* C8: among the deliveries that carry an order id, OrderCreated goes
\* forward, OrderStateChanged to 'Cancelled' goes the reversal way, and every
\* other one ends at once without a read and without a customer update.
C8_Dispatch ==
  \A t \in Delivered :
    (msg[t].notificationType # "ResourceCreated" /\ msg[t].orderId # None) =>
      /\ msg[t].type = "OrderCreated" => Forward(t)
      /\ (msg[t].type = "OrderStateChanged" /\ msg[t].orderState = "Cancelled")
           => Reversal(t)
      /\ ~( \/ msg[t].type = "OrderCreated"
            \/ (msg[t].type = "OrderStateChanged" /\ msg[t].orderState = "Cancelled") )
           => /\ direction[t] = "skipped"
              /\ pc[t] = "done"
              /\ reads[t] = <<>>
              /\ writeResult[t] = "none"

\* A cancellation was applied and a state change to another state skipped.
C8_Witness ==
  \E t, u \in Delivered :
    /\ msg[t].type = "OrderStateChanged" /\ msg[t].orderState = "Cancelled"
    /\ Reversal(t) /\ Wrote(t)
    /\ msg[u].type = "OrderStateChanged" /\ msg[u].orderState = "Open"
    /\ pc[u] = "done" /\ reads[u] = <<>>

\* C9: with a conversion table that is missing, not an array, ill-shaped
\* (an element of the wrong shape or null) or empty, and no request failed
\* by the platform, a handler that has loaded the table has ended there as
\* skipped: nothing is read after it, no customer update is issued, the
\* caller gets its 204 and no customer changes.
C9_UnusableTableSkips ==
  (conversionObj \in UnusableObjects /\ faults = 0) =>
    /\ \A t \in Tasks :
         /\ writeResult[t] = "none"
         /\ pc[t] \in {"idle", "order", "rates", "done"}
         /\ (Len(reads[t]) >= 2 /\ reads[t][2] = "conversionRates")
              => /\ Len(reads[t]) = 2
                 /\ pc[t] = "done"
                 /\ outcome[t] = "skipped"
                 /\ response[t] = "204"
    /\ \A c \in CustomerIds : customers[c].version = 1
    /\ customers["c1"].availablePoints = Num(10)

\* C10: a handler whose order has no customer id ends after the order read:
\* it reads nothing else and issues no customer update; when every delivery
\* is of such an order no customer changes.
C10_AnonymousSkips ==
  /\ \A t \in Tasks :
       (order[t] # None /\ Orders[order[t]].customerId = None)
         => /\ pc[t] = "done"
            /\ outcome[t] = "skipped"
            /\ reads[t] = <<"order">>
            /\ writeResult[t] = "none"
  /\ (\A t \in Delivered : msg[t].orderId # None
                            /\ Orders[msg[t].orderId].customerId = None)
       => \A c \in CustomerIds : customers[c].version = 1

\* A creation and a cancellation of the anonymous order have both ended.
C10_Witness ==
  \E t, u \in Tasks :
    /\ Forward(t) /\ Reversal(u)
    /\ order[t] = "o3" /\ order[u] = "o3"
    /\ pc[t] = "done" /\ pc[u] = "done"
    /\ conversionObj = ConversionTable

(* ------------------------------------------------------------------ *)
(* Properties of the service functions                                 *)
(* ------------------------------------------------------------------ *)

\* What the loop over the included discounts, and the loop over the direct
\* discounts, make of the order of a call.
PrimaryOf(c) ==
  IncludedFrom(c.order.includedDiscounts, 1, c.order.cartId, c.failing, c.rates)
FallbackOf(c) ==
  DirectFrom(c.order.directDiscounts, 1, c.order.cartId, c.failing, c.rates)

\* C11: when the order's list of included discounts is not empty, the points
\* to deduct are the value of the included discounts alone, whatever the
\* direct discounts would yield and even when the included ones yield 0.
C11_RedemptionPrecedence ==
  (call.fn = "getPointRedemptionPointsToDeduct"
   /\ Len(call.order.includedDiscounts) > 0)
    => call.result = PrimaryOf(call)

\* An order whose included discount is scoped to another cart (0 points) and
\* whose direct discount would yield 9 points: 0 points are deducted.
C11_Witness ==
  /\ call.fn = "getPointRedemptionPointsToDeduct"
  /\ Len(call.order.includedDiscounts) > 0
  /\ call.failing = {}
  /\ PrimaryOf(call) = 0
  /\ FallbackOf(call) = 9
  /\ call.result = 0

\* The redemption flag is true under one of its two names, and the cart id
\* under one of its two names is the cart id of the order.
FlaggedForCart(fields, cartId) ==
  /\ cartId # None
  /\ fields.isPointRedemption \/ fields.isPointRedemtion
  /\ fields.referenceCart = cartId \/ fields.referenceCartId = cartId

\* The discounts referenced by the list that a call of
\* getPointRedemptionPointsToDeduct iterates.
DiscountsOf(o) ==
  IF Len(o.includedDiscounts) > 0
  THEN { o.includedDiscounts[i].id : i \in 1..Len(o.includedDiscounts) }
  ELSE { o.directDiscounts[i].id : i \in 1..Len(o.directDiscounts) }

\* C12: a discount is taken for a point redemption of the order only when
\* its flag is true and its cart id is the order's (under either name each);
\* an order without a cart id, or whose discounts are all unflagged or scoped
\* to other carts, has 0 points deducted.
C12_OnlyFlaggedForThisCart ==
  /\ call.fn = "isPointRedemptionDiscount"
       => (call.result => FlaggedForCart(call.fields, call.orderCartId))
  /\ ( /\ call.fn = "getPointRedemptionPointsToDeduct"
       /\ \A id \in DiscountsOf(call.order) :
            ~FlaggedForCart(CartDiscounts[id], call.order.cartId) )
       => call.result = 0

\* Scenario C, second half: an order of cart k4 whose included discount of
\* 700 cents is flagged but scoped to cart k2 has nothing deducted.
C12_Witness ==
  /\ call.fn = "getPointRedemptionPointsToDeduct"
  /\ call.order.cartId = "k4"
  /\ call.order.includedDiscounts = << Portion("cart-discount", "d1", Money(700, "USD")) >>
  /\ call.failing = {}
  /\ FlaggedForCart(CartDiscounts["d1"], "k2")
  /\ call.result = 0

(* ------------------------------------------------------------------ *)
(* Properties of the handlers, continued                               *)
(* ------------------------------------------------------------------ *)

\* f[1] + ... + f[n].
RECURSIVE SumTo(_, _)
SumTo(f, n) == IF n = 0 THEN 0 ELSE f[n] + SumTo(f, n - 1)

\* The points of the payments of o whose fetch is not in `lost`.
ReachablePayments(o, lost, rates) ==
  SumTo([i \in 1..Len(o.payments) |->
           IF i \in lost THEN 0 ELSE MoneyPoints(Payments[o.payments[i]], rates)],
        Len(o.payments))

\* The points of the discounts of o (of the list that is iterated) whose
\* fetch is not in `lost`.
ReachableDiscounts(o, lost, rates) ==
  IF Len(o.includedDiscounts) > 0
  THEN SumTo([i \in 1..Len(o.includedDiscounts) |->
                IF i \in lost THEN 0
                ELSE PortionPoints(o.includedDiscounts[i], o.cartId, FALSE, rates)],
             Len(o.includedDiscounts))
  ELSE SumTo([i \in 1..Len(o.directDiscounts) |->
                IF i \in lost THEN 0
                ELSE DirectPoints(o.directDiscounts[i], o.cartId, FALSE, rates)],
             Len(o.directDiscounts))

\* C13: a payment or discount whose fetch throws counts 0, the loop goes on
\* to the next one and the other ones are summed as without the failure;
\* the handler goes on to the customer read and, when that succeeds, issues
\* the customer update.
C13_PartialFailureTolerated ==
  \A t \in Tasks :
    /\ (failed[t].payments # {} /\ pc[t] # "payments")
         => pointsFromPayments[t] =
              ReachablePayments(Orders[order[t]], failed[t].payments, conversionRates[t])
    /\ (failed[t].discounts # {} /\ pc[t] # "discounts")
         => pointsToDeduct[t] =
              ReachableDiscounts(Orders[order[t]], failed[t].discounts, redemptionRates[t])
    /\ pc[t] = "payments" => \A i \in failed[t].payments : i < cursor[t]
    /\ pc[t] = "discounts" => \A i \in failed[t].discounts : i < cursor[t]
    /\ failed[t] # NoFailure
         => /\ pc[t] \in {"payments", "discounts", "customer", "write", "done"}
            /\ pc[t] = "done"
                 => /\ Len(reads[t]) = 6
                    /\ customer[t] # NoCustomer => writeResult[t] # "none"

\* Order o4 (payments of 100 and 500 cents, a direct redemption of 200): the
\* fetch of the first payment has failed; 5 points are earned, 2 deducted,
\* and the update is applied.
C13_Witness ==
  \E t \in Tasks :
    /\ order[t] = "o4" /\ Forward(t)
    /\ failed[t] = [payments |-> {1}, discounts |-> {}]
    /\ pointsFromPayments[t] = 5 /\ pointsToDeduct[t] = 2
    /\ Wrote(t)
    /\ customers["c2"].availablePoints = Num(3)

(* ------------------------------------------------------------------ *)
(* Properties of the service functions, continued                      *)
(* ------------------------------------------------------------------ *)

\* The index of the first row of the currency, whatever the case of the
\* codes, whose currencyCentAmount is > 0; 0 when there is none.
RECURSIVE FirstUsable(_, _, _)
FirstUsable(rates, code, i) ==
  IF i > Len(rates) THEN 0
  ELSE IF ToUpperCase(rates[i].currency) = ToUpperCase(code)
          /\ rates[i].currencyCentAmount > 0
       THEN i
  ELSE FirstUsable(rates, code, i + 1)

\* C14: currencyToPoints is floor(centAmount * pointAmount /
\* currencyCentAmount), in exact arithmetic, for the rate of the currency,
\* and 0 when the table has no row of the currency.  (Tables whose first row
\* of the currency is unusable are left to C18.)
C14_PointsFor ==
  call.fn = "currencyToPoints" =>
    LET i == FindRate(call.rates, call.currencyCode, 1) IN
    /\ i = 0 => call.result = 0
    /\ (i # 0 /\ i = FirstUsable(call.rates, call.currencyCode, 1))
         => call.result = FloorPoints_Exact(call.centAmount, call.rates[i])

\* The awaits of a handler that reaches its write, in their order.
AllReads ==
  <<"order", "conversionRates", "redemptionRates", "payments", "discounts", "customer">>

IsPrefix(s, full) ==
  /\ Len(s) <= Len(full)
  /\ \A i \in 1..Len(s) : s[i] = full[i]

\* C15: a handler issues its reads in one fixed order; it issues its customer
\* update after all of them, and ends with it, so there is at most one; a
\* customer has been changed exactly once by each applied update of a
\* handler whose order is that customer's, and by nothing else.
C15_ReadsThenOneWrite ==
  /\ \A t \in Tasks :
       /\ IsPrefix(reads[t], AllReads)
       /\ writeResult[t] # "none" => (reads[t] = AllReads /\ pc[t] = "done")
       /\ pc[t] = "write" => reads[t] = AllReads
  /\ \A c \in CustomerIds :
       customers[c].version = 1 + Cardinality({ t \in Tasks : Wrote(t) /\ CustomerOf(t) = c })
  /\ customers["c2"].version = 1 => customers["c2"] = CustomerState(1, None, Absent)

\* A creation of order o4 (customer c2) has read everything and its update
\* is applied: c2 is at version 2, c1 is as it was.
C15_Witness ==
  \E t \in Tasks :
    /\ order[t] = "o4" /\ Wrote(t)
    /\ reads[t] = AllReads
    /\ customers["c2"].version = 2
    /\ customers["c1"] = CustomerState(1, CUSTOMER_LOYALTY_CUSTOM_TYPE, Num(10))

\* The number of awaits that have returned to a handler suspended at `at`.
ReadsBefore(at) ==
  CASE at = "order" -> 0
    [] at = "rates" -> 1
    [] at = "redemptionRates" -> 2
    [] at = "payments" -> 3
    [] at = "discounts" -> 4
    [] at = "customer" -> 5
    [] at = "write" -> 6
    [] OTHER -> 0

\* C16: a delivery that carries an order id is answered with 204 and with
\* nothing else, at the moment its handler ends and not before, whichever
\* of its requests failed; until then the handler is at one of its awaits,
\* each of which it passes once.
C16_NoErrorEscapes ==
  \A t \in Delivered :
    (msg[t].notificationType # "ResourceCreated" /\ msg[t].orderId # None) =>
      /\ response[t] \in {"none", "204"}
      /\ (pc[t] = "done") = (response[t] = "204")
      /\ pc[t] # "done" => Len(reads[t]) = ReadsBefore(pc[t])
      /\ pc[t] = "payments" => cursor[t] \in PaymentPositions(Orders[order[t]])
      /\ pc[t] = "discounts" => cursor[t] \in DiscountPositions(Orders[order[t]])
      /\ outcome[t] = "failed" => (pc[t] = "done" /\ response[t] = "204")

\* The customer read of a handler has failed after five awaits that returned:
\* the handler has ended and the delivery is answered with 204.
C16_Witness ==
  \E t \in Delivered :
    /\ msg[t].orderId # None
    /\ Len(reads[t]) = 6 /\ customer[t] = NoCustomer
    /\ outcome[t] = "failed" /\ writeResult[t] = "none"
    /\ pc[t] = "done" /\ response[t] = "204"

\* The points of a set of payments, each counted once.
RECURSIVE PointsOfSet(_, _)
PointsOfSet(ids, rates) ==
  IF ids = {} THEN 0
  ELSE LET id == CHOOSE x \in ids : TRUE IN
       MoneyPoints(Payments[id], rates) + PointsOfSet(ids \ {id}, rates)

\* C17: when every payment is served, the earned points are those of the
\* distinct payments the order references, each counted once.
C17_PaymentsDeduplicated ==
  (call.fn = "getPointsFromPayments" /\ call.failing = {}) =>
    call.result =
      PointsOfSet({ call.order.payments[i] : i \in 1..Len(call.order.payments) } \ {None},
                  call.rates)

\* C18: the conversion uses the first row of the currency, compared without
\* regard to case, whose currencyCentAmount is > 0, also when an unusable row
\* of the currency precedes it; without such a row the result is 0.
C18_FirstUsableRate ==
  call.fn = "currencyToPoints" =>
    LET i == FirstUsable(call.rates, call.currencyCode, 1) IN
    call.result = IF i = 0 THEN 0 ELSE FloorPoints(call.centAmount, call.rates[i])

\* C19: with a table that getConversionRates accepts, the points earned from
\* the payments of an order and the points to deduct for its redemptions are
\* natural numbers.
C19_PointsNonNegative ==
  ( /\ call.fn \in {"getPointsFromPayments", "getPointRedemptionPointsToDeduct"}
    /\ ConversionRowsOf(ObjRows(call.rates)) = call.rates )
    => call.result \in Nat

\* C20: the balance read from the customer's field is a number: 0 when the
\* field is absent, null or not numeric, and the floor of a stored number.
C20_CurrentBalanceRead ==
  call.fn = "getCurrentAvailablePoints" =>
    /\ ~call.result.nan
    /\ call.value.kind \in {"absent", "null", "text"} => call.result = Int2Js(0)
    /\ call.value.kind = "num" => 2 * call.result.n \in {call.value.halves, call.value.halves - 1}

(* ------------------------------------------------------------------ *)
(* Properties of the customer update                                   *)
(* ------------------------------------------------------------------ *)

\* The customer a handler has read carries the loyalty custom type.
HasLoyaltyType(cust) ==
  cust.typeKey # None /\ cust.typeKey = CUSTOMER_LOYALTY_CUSTOM_TYPE

\* C21: in a creation and in a cancellation alike, the update actions are
\* setCustomType exactly when the customer read has no custom type or one
\* that is not the loyalty type, followed by setCustomField.
C21_AttachTypeThenSetBalance ==
  \A t \in Tasks :
    (pc[t] = "write" \/ writeResult[t] # "none") =>
      actions[t] = IF HasLoyaltyType(customer[t])
                   THEN <<"setCustomField">>
                   ELSE <<"setCustomType", "setCustomField">>

(* ------------------------------------------------------------------ *)
(* Properties of the deduction                                         *)
(* ------------------------------------------------------------------ *)

\* The amounts of the discounts of o that are served and are point
\* redemptions of its cart (of the list that is iterated), each converted
\* with `table` by currencyToPoints, and summed.
QualifyingPoints(o, lost, table) ==
  IF Len(o.includedDiscounts) > 0
  THEN SumTo([i \in 1..Len(o.includedDiscounts) |->
                LET p == o.includedDiscounts[i] IN
                IF /\ i \notin lost
                   /\ p.typeId \in {"cart-discount", "direct-discount"}
                   /\ isPointRedemptionDiscount(CartDiscounts[p.id], o.cartId)
                THEN currencyToPoints(p.discountedAmount.centAmount,
                                      p.discountedAmount.currencyCode, table)
                ELSE 0],
             Len(o.includedDiscounts))
  ELSE SumTo([i \in 1..Len(o.directDiscounts) |->
                LET dd == o.directDiscounts[i] IN
                IF /\ i \notin lost
                   /\ dd.type = "absolute" /\ dd.money.present /\ dd.money.centAmount > 0
                   /\ isPointRedemptionDiscount(CartDiscounts[dd.id], o.cartId)
                THEN currencyToPoints(dd.money.centAmount, dd.money.currencyCode, table)
                ELSE 0],
             Len(o.directDiscounts))

\* C22: the points a handler deducts (or gives back) are the qualifying
\* discount amounts of its order converted with the table that
\* getConversionRates returned to this handler.  The handler converts them
\* with what getRedemptionRates returned: the property holds in the
\* behaviours in which redemptionObj holds the rows of the conversion rates
\* object and fails in the others, and the source does not tell which of
\* them the program has.
C22_SameTableForDeduction ==
  \A t \in Tasks :
    Len(reads[t]) >= 5 =>
      pointsToDeduct[t] =
        QualifyingPoints(Orders[order[t]], failed[t].discounts, conversionRates[t])

(* ------------------------------------------------------------------ *)
(* Properties of concurrent updates                                    *)
(* ------------------------------------------------------------------ *)

\* Handlers t and u have both issued an update of the same customer.
SameCustomer(t, u) ==
  /\ writeResult[t] # "none" /\ writeResult[u] # "none"
  /\ CustomerOf(t) = CustomerOf(u)

\* C23: no two applied updates of a customer were computed from the same
\* read state; an applied update computed from a later version read the
\* balance its predecessor stored; the stored balance is that of the last
\* applied update; and an update is rejected only when another handler's
\* update of the customer was applied after the state it had read.
C23_NoLostUpdate ==
  /\ \A t, u \in Tasks :
       (t # u /\ SameCustomer(t, u) /\ Wrote(t) /\ Wrote(u)) =>
         /\ customer[t].version # customer[u].version
         /\ customer[u].version = customer[t].version + 1
              => customer[u].availablePoints = FieldValueOf(newPoints[t])
  /\ \A t \in Tasks :
       /\ (Wrote(t) /\ customers[CustomerOf(t)].version = customer[t].version + 1)
            => customers[CustomerOf(t)].availablePoints = FieldValueOf(newPoints[t])
       /\ Wrote(t) => customers[CustomerOf(t)].version > customer[t].version
       /\ writeResult[t] = "conflict"
            => \E u \in Tasks :
                 /\ u # t /\ SameCustomer(t, u) /\ Wrote(u)
                 /\ customer[u].version >= customer[t].version

\* Two deliveries for customer c1 have both read it at version 1 with balance
\* 10; the update of one is applied (version 2), the update of the other,
\* computed from the stale balance, is rejected.
C23_Witness ==
  \E t, u \in Tasks :
    /\ t # u /\ SameCustomer(t, u)
    /\ customer[t].version = 1 /\ customer[u].version = 1
    /\ currentPoints[t] = Int2Js(10) /\ currentPoints[u] = Int2Js(10)
    /\ Wrote(u) /\ writeResult[t] = "conflict"
    /\ customers[CustomerOf(u)].version = 2
    /\ customers[CustomerOf(u)].availablePoints = FieldValueOf(newPoints[u])

====
